---------------------------- MODULE Spec2Model ----------------------------
(***************************************************************************)
(* A model of the AttoDRY binding (PyAttoDRY.py): the class AttoDRY, its   *)
(* two fields, and the driver calls each of its methods makes.  The driver *)
(* (the module-level name adryLib, one per process) is a recording,        *)
(* pass-through double: it keeps the server/transport flags and the values *)
(* written by the setters, and every method records the native calls it    *)
(* makes, in order, with their marshalled arguments.                       *)
(***************************************************************************)
EXTENDS Integers, Sequences, FiniteSets, TLC

VARIABLES
    objects,        \* the AttoDRY objects constructed in the process
    setup_version,  \* AttoDRY.setup_version, per object
    com_port,       \* AttoDRY.com_port, per object
    adryLib,        \* the state of the process-wide driver
    lastOp,         \* the method call that returned last
    lastRet,        \* how it returned: normally with a value, or by raising
    lastCalls,      \* the driver calls it made, in order
    lastCloses,     \* the number of transports it closed
    lastPre,        \* what held when it was called, and whether it changed the
                    \* driver's state
    lifecycle,      \* per object: where its calls so far put it in the lifecycle
    emptySession,   \* progress of begin, Connect, Disconnect, end since construction
    fieldSession,   \* progress of the magnetic-field session since construction
    userTemperatureSet, \* the argument of the last setUserTemperature, if no
                        \* other setter was called since
    threads,        \* per thread: the method it is in, and how far
    serialized,     \* whether the caller lets one method call at a time run
    lastNative      \* the driver call a thread made last, and what the driver
                    \* calls of the threads so far add up to

vars == <<objects, setup_version, com_port, adryLib, lastOp, lastRet, lastCalls,
          lastCloses, lastPre, lifecycle, emptySession, fieldSession,
          userTemperatureSet, threads, serialized, lastNative>>

-----------------------------------------------------------------------------
(* Bounds *)

\* One unit in the last place of the native 32-bit float, in units of the
\* finest host (64-bit) value the model distinguishes.
Ulp == 2

\* The count of driver Disconnect calls since a transport was last opened is
\* kept up to this number.
MaxDisconnects == 2

-----------------------------------------------------------------------------
(* The device enumeration *)

ATTODRY1100 == 0
ATTODRY2100 == 1
ATTODRY800 == 2

Devices == {ATTODRY1100, ATTODRY2100, ATTODRY800}

-----------------------------------------------------------------------------
(* Objects and inputs *)

\* Names for AttoDRY objects; all objects of a process share the one loaded
\* driver.
Facades == {"a", "b"}

\* Connection identifiers, as strings of code points: "COM5" and "COM9".
COM5 == <<67, 79, 77, 53>>
COM9 == <<67, 79, 77, 57>>
Ports == {COM5, COM9}

\* Host floats a caller may pass: some are native 32-bit values, some are not.
Doubles == 0 .. Ulp

\* A Python value passed to a setter: a float, or something that is no number.
Number(n) == [kind |-> "float", v |-> n]
NotANumber == [kind |-> "str", v |-> 0]

\* A Python int passed to a method.
Integer(n) == [kind |-> "int", v |-> n]

SetterInputs == {Number(n) : n \in Doubles} \cup {NotANumber}

\* 0.5 tesla: a native 32-bit value.
FieldHalf == Ulp

\* No transport open.
NoPort == <<>>

\* The buffer length getActionMessage and getAttodryErrorMessage default to.
DefaultLength == 500

\* Buffer lengths a caller may pass: too short for the messages, and the default.
MessageLengths == {1, DefaultLength}

\* The messages the driver holds, as bytes: "Go" and "Err".
ActionText == <<71, 111>>
ErrorText == <<69, 114, 114>>

\* The curve numbers a caller passes: the ends of the documented range and
\* their neighbours outside it.
CurveNumbers == {0, 1, 8, 9}

\* The path of a curve file, "c", as code points.
CurvePaths == { <<99>> }

\* The flags the driver answers the boolean queries from, other than the
\* connection flag.
DriverFlags ==
    {"isControllingField", "isControllingTemperature", "isPersistentModeSet",
     "isGoingToBaseTemperature", "isPumping", "isSampleExchangeInProgress",
     "isSampleHeaterOn", "isExchangeHeaterOn", "isSampleReadyToExchange",
     "isSystemRunning", "isZeroingField"}

-----------------------------------------------------------------------------
(* Marshalling: ctypes *)

\* ctypes.c_uint16(x).value
c_uint16(x) == x % 65536

\* ctypes.c_float(x).value: the nearest native 32-bit value, ties to even.
c_float(x) ==
    LET q == x \div Ulp
        r == x % Ulp
    IN  IF 2 * r < Ulp THEN q * Ulp
        ELSE IF 2 * r > Ulp THEN (q + 1) * Ulp
        ELSE IF q % 2 = 0 THEN q * Ulp ELSE (q + 1) * Ulp

\* The values ctypes.c_float accepts: numbers (anything else is a TypeError).
IsNumber(x) == x.kind = "float"

\* One code point as UTF-8 bytes (code points below 0x800).
Utf8Char(c) == IF c < 128 THEN <<c>> ELSE <<192 + (c \div 64), 128 + (c % 64)>>

\* bytes.decode("utf-8"), for the encodings of code points below 0x800.
RECURSIVE decode_utf8(_)
decode_utf8(b) ==
    IF b = <<>> THEN <<>>
    ELSE IF Head(b) < 128 THEN <<Head(b)>> \o decode_utf8(Tail(b))
    ELSE <<(Head(b) - 192) * 64 + (b[2] - 128)>> \o decode_utf8(Tail(Tail(b)))

\* str.encode("utf-8")
RECURSIVE encode_utf8(_)
encode_utf8(s) == IF s = <<>> THEN <<>> ELSE Utf8Char(Head(s)) \o encode_utf8(Tail(s))

\* The first n elements of a sequence.
Prefix(b, n) == SubSeq(b, 1, IF n < Len(b) THEN n ELSE Len(b))

\* ctypes.create_string_buffer(length).value after the driver has written b:
\* the bytes up to the first NUL.
RECURSIVE buffer_value(_)
buffer_value(b) ==
    IF b = <<>> \/ Head(b) = 0 THEN <<>> ELSE <<Head(b)>> \o buffer_value(Tail(b))

\* ctypes.c_int().value after the driver has written the 32-bit float x to
\* it: the bit pattern of x read as an integer (0.0 is 0; the patterns of
\* positive values start at 0x3F800000 and keep their order).
float_bits_as_int(x) == IF x = 0 THEN 0 ELSE 1065353216 + x

\* ctypes.c_int(x).value: x wrapped to a signed 32-bit integer; every integer
\* of the model lies in -2147483647 .. 2147483647, where nothing wraps.
c_int(x) == IF x > 2147483647 THEN x - 2147483647 - 2147483647 - 2 ELSE x

\* ctypes.c_char_p(b).value: the bytes up to the first NUL.
RECURSIVE c_char_p(_)
c_char_p(b) ==
    IF b = <<>> \/ Head(b) = 0 THEN <<>> ELSE <<Head(b)>> \o c_char_p(Tail(b))

-----------------------------------------------------------------------------
(* The driver double behind adryLib *)

\* The transports at which a device answers.
PresentPorts == {encode_utf8(COM5)}

\* One recorded native call: entry point, numeric arguments, string argument.
Call(fn, num, str) == [fn |-> fn, num |-> num, str |-> str]

\* begin: starts the server.
adryLib_begin(d, device) == [d EXCEPT !.started = TRUE]

\* Connect: opens the transport if the server runs, none is open, and a device
\* answers at the port; an absent device raises the error status.
adryLib_Connect(d, port) ==
    IF ~d.started \/ d.port # NoPort THEN d
    ELSE IF port \in PresentPorts THEN [d EXCEPT !.port = port]
    ELSE [d EXCEPT !.errorStatus = 1]

\* The status flags the driver keeps, and the flag of an initialised device:
\* a device is initialised once its transport is open.
adryLib_flag(d, q) == d.flags[q]
adryLib_isDeviceInitialised(d) == IF d.port # NoPort THEN 1 ELSE 0

\* togglePump: "If the pump is running, it will stop it. If the pump is not
\* running, it will be started."
adryLib_togglePump(d) == [d EXCEPT !.flags["isPumping"] = 1 - @]

\* The sample heater resistance is kept twice: on the attoDRY, and in the
\* memory of the computer. The query asks the attoDRY for its value; the get
\* reads the computer's; the set writes the attoDRY's.
adryLib_querySampleHeaterResistance(d) ==
    IF d.port # NoPort THEN [d EXCEPT !.queryPending = TRUE] ELSE d

adryLib_getSampleHeaterResistance(d) == d.heaterResistance

adryLib_setSampleHeaterResistance(d, x) ==
    IF d.port # NoPort THEN [d EXCEPT !.deviceHeaterResistance = x] ELSE d

\* The valve toggles: the break-vacuum valve is kept; of the other valves no
\* modelled getter reads the position, and nothing is kept.
adryLib_toggleValve(d, fn) ==
    IF fn = "toggleBreakVac800Valve" THEN [d EXCEPT !.breakVac800Valve = 1 - @]
    ELSE d

\* The curve transfers are started and nothing of them is kept.
adryLib_uploadTemperatureCalibrationCurve(d, number, path) == d

adryLib_downloadTemperatureSensorCalibrationCurve(d, number, path) == d

\* Whether the native call to fn fails: with a fault on the open transport,
\* Disconnect cannot close it.
adryLib_Fails(d, fn) == fn = "Disconnect" /\ d.fault # "none" /\ d.port # NoPort

\* Whether the failing native call raises through ctypes (OSError) instead of
\* returning an error code.
adryLib_Raises(d, fn) == adryLib_Fails(d, fn) /\ d.fault = "raise"

\* Disconnect: "Disconnects from the attoDRY, if already connected"; a
\* Disconnect that fails leaves the transport open and raises the error status.
adryLib_Disconnect(d) ==
    IF adryLib_Fails(d, "Disconnect") THEN [d EXCEPT !.errorStatus = 1]
    ELSE [d EXCEPT !.port = NoPort]

\* The number of transports a Disconnect closes.
adryLib_Closes(d) ==
    IF d.port # NoPort /\ ~adryLib_Fails(d, "Disconnect") THEN 1 ELSE 0

\* end: stops the server.
adryLib_end(d) == [d EXCEPT !.started = FALSE]

\* isDeviceConnected: the flag written to the out parameter.
adryLib_isDeviceConnected(d) == IF d.port # NoPort THEN 1 ELSE 0

adryLib_getAttodryErrorStatus(d) == d.errorStatus
adryLib_get4KStageTemperature(d) == d.stage4KTemperature
adryLib_getSampleTemperature(d) == d.sampleTemperature
adryLib_getUserTemperature(d) == d.userTemperature
adryLib_getMagneticFieldSetPoint(d) == d.userMagneticField
adryLib_setUserMagneticField(d, x) == [d EXCEPT !.userMagneticField = x]
adryLib_setUserTemperature(d, x) == [d EXCEPT !.userTemperature = x]
adryLib_toggleHeliumValve(d) == [d EXCEPT !.heliumValve = 1 - @]
adryLib_toggleCryostatInValve(d) == [d EXCEPT !.cryostatInValve = 1 - @]

\* The message entry points write at most length bytes of the message.
adryLib_getActionMessage(d, length) == Prefix(d.actionMessage, length)
adryLib_getAttodryErrorMessage(d, length) == Prefix(d.errorMessage, length)
adryLib_getTurbopumpFrequency(d) == d.turbopumpFrequency
adryLib_getBreakVac800Valve(d) == d.breakVac800Valve

-----------------------------------------------------------------------------
(* Observers *)

Ok(v) == [status |-> "ok", value |-> v]
Raised(e) == [status |-> e, value |-> <<>>]

\* The lifecycle state a call leaves the object in, d being the driver after it.
NextLifecycle(l, op, d) ==
    CASE op = "begin" /\ l = "Constructed" -> "Begun"
      [] op = "Connect" /\ l = "Begun" /\ d.port # NoPort -> "Connected"
      [] op = "Disconnect" /\ l = "Connected" -> "Begun"
      [] op = "end" -> "Ended"
      [] OTHER -> l

Step(op, arg) == [op |-> op, arg |-> arg]

EmptyScript ==
    << Step("begin", <<>>), Step("Connect", <<>>),
       Step("Disconnect", <<>>), Step("end", <<>>) >>

FieldScript ==
    << Step("begin", <<>>), Step("Connect", <<>>),
       Step("setUserMagneticField", <<Number(FieldHalf)>>),
       Step("getMagneticFieldSetPoint", <<>>),
       Step("Disconnect", <<>>), Step("end", <<>>) >>

NoSession == [who |-> "nobody", step |-> 0]
Broken == [who |-> "nobody", step |-> -1]

\* A session advances while the calls made since construction, all on one
\* object, are exactly the script's; any other call breaks it.
Advance(s, script, f, op, arg) ==
    IF /\ s.step >= 0
       /\ s.step < Len(script)
       /\ (s.step = 0 \/ s.who = f)
       /\ script[s.step + 1] = Step(op, arg)
    THEN [who |-> f, step |-> s.step + 1]
    ELSE Broken

\* The setters modelled.
Setters ==
    {"setUserMagneticField", "setUserTemperature", "setSampleHeaterResistance"}

\* The argument of the last setUserTemperature that returned, forgotten at the
\* call of any other setter.
NextUserTemperatureSet(u, op, arg, ret) ==
    IF op = "setUserTemperature" /\ ret.status = "ok" THEN arg
    ELSE IF op \in Setters THEN <<>>
    ELSE u

\* A method call returns: the driver is left as d, and the call is observed.
Returns(f, op, arg, ret, calls, closes, d) ==
    /\ adryLib' = d
    /\ lastOp' = [facade |-> f, op |-> op, arg |-> arg]
    /\ lastRet' = ret
    /\ lastCalls' = calls
    /\ lastCloses' = closes
    /\ lastPre' = [lifecycle |-> lifecycle[f],
                   connected |-> adryLib_isDeviceConnected(adryLib),
                   repeated |-> (lastOp.op = op),
                   sameRet |-> (lastRet = ret),
                   signalled |-> (adryLib.errorStatus = 0 /\ d.errorStatus # 0),
                   changed |-> (d # adryLib)]
    /\ lifecycle' = [lifecycle EXCEPT ![f] = NextLifecycle(@, op, d)]
    /\ emptySession' = Advance(emptySession, EmptyScript, f, op, arg)
    /\ fieldSession' = Advance(fieldSession, FieldScript, f, op, arg)
    /\ userTemperatureSet' = NextUserTemperatureSet(userTemperatureSet, op, arg, ret)
    /\ UNCHANGED <<objects, setup_version, com_port, threads, serialized, lastNative>>

-----------------------------------------------------------------------------
(* Construction *)

\* The threads of the caller, and the methods they call.
Threads == {"t1", "t2"}

ThreadMethods ==
    {"begin", "Connect", "Disconnect", "end", "getSampleTemperature",
     "setUserTemperature"}

\* A thread in no method.
Idle == [op |-> "idle", facade |-> "nobody", pc |-> 0, flag |-> 0, val |-> 0]

\* No driver call made by a thread yet.
NoNative ==
    [thread |-> "nobody", op |-> "__init__", fn |-> "none", late |-> FALSE,
     ended |-> FALSE, opened |-> FALSE, disconnects |-> 0]

\* The driver as loaded, and nothing called yet.
Fresh ==
    /\ adryLib = [started |-> FALSE, port |-> NoPort, errorStatus |-> 0,
                  stage4KTemperature |-> Ulp, sampleTemperature |-> 0,
                  userTemperature |-> 0, userMagneticField |-> 0,
                  heliumValve |-> 0, cryostatInValve |-> 0,
                  actionMessage |-> ActionText, errorMessage |-> ErrorText,
                  turbopumpFrequency |-> Ulp, breakVac800Valve |-> 0,
                  flags |-> [q \in DriverFlags |-> 0],
                  heaterResistance |-> 0, deviceHeaterResistance |-> 0,
                  queryPending |-> FALSE, fault |-> "none"]
    /\ lastOp = [facade |-> "nobody", op |-> "__init__", arg |-> <<>>]
    /\ lastRet = Ok(<<>>)
    /\ lastCalls = <<>>
    /\ lastCloses = 0
    /\ lastPre = [lifecycle |-> "Constructed", connected |-> 0,
                  repeated |-> FALSE, sameRet |-> FALSE, signalled |-> FALSE,
                  changed |-> FALSE]
    /\ lifecycle = [f \in objects |-> "Constructed"]
    /\ emptySession = NoSession
    /\ fieldSession = NoSession
    /\ userTemperatureSet = <<>>
    /\ threads = [t \in Threads |-> Idle]
    /\ lastNative = NoNative

\* One object, constructed with any device and any port.
Init ==
    /\ objects = {"a"}
    /\ setup_version \in [objects -> Devices]
    /\ com_port \in [objects -> Ports]
    /\ serialized = TRUE
    /\ Fresh

-----------------------------------------------------------------------------
(* The methods of AttoDRY *)

\* A faulty begin: always loads the software for the attoDRY2100.
begin_fixed_device(f) ==
    Returns(f, "begin", <<>>, Ok(<<>>),
            << Call("begin", <<ATTODRY2100>>, <<>>) >>,
            0, adryLib_begin(adryLib, ATTODRY2100))

begin(f) ==
    LET c == c_uint16(setup_version[f])
    IN  Returns(f, "begin", <<>>, Ok(<<>>),
                << Call("begin", <<c>>, <<>>) >>,
                0, adryLib_begin(adryLib, c))

Connect(f) ==
    LET COMPort == encode_utf8(com_port[f])
    IN  Returns(f, "Connect", <<>>, Ok(<<>>),
                << Call("Connect", <<>>, c_char_p(COMPort)) >>,
                0, adryLib_Connect(adryLib, c_char_p(COMPort)))

\* A faulty Disconnect: forwards to the driver's end.
Disconnect_calls_end(f) ==
    Returns(f, "Disconnect", <<>>, Ok(<<>>),
            << Call("end", <<>>, <<>>) >>,
            0, adryLib_end(adryLib))

\* An exception raised by the native call leaves the method at once.
Disconnect(f) ==
    Returns(f, "Disconnect", <<>>,
            IF adryLib_Raises(adryLib, "Disconnect") THEN Raised("OSError")
            ELSE Ok(<<>>),
            << Call("Disconnect", <<>>, <<>>) >>,
            adryLib_Closes(adryLib), adryLib_Disconnect(adryLib))

\* A faulty end: stops the server without looking at the connection.
end_without_disconnect(f) ==
    Returns(f, "end", <<>>, Ok(<<>>),
            << Call("end", <<>>, <<>>) >>,
            0, adryLib_end(adryLib))

\* A faulty end: disconnects, but leaves the server running.
\* A faulty end: decides from what this object has done, not from the
\* driver's flag.
end_from_own_state(f) ==
    LET mine == lifecycle[f] = "Connected"
        disc == IF mine THEN << Call("Disconnect", <<>>, <<>>) >> ELSE <<>>
        closes == IF mine THEN adryLib_Closes(adryLib) ELSE 0
        d1 == IF mine THEN adryLib_Disconnect(adryLib) ELSE adryLib
    IN  Returns(f, "end", <<>>, Ok(<<>>),
                disc \o << Call("end", <<>>, <<>>) >>, closes, adryLib_end(d1))

end_without_stop(f) ==
    LET flag == adryLib_isDeviceConnected(adryLib)
        query == << Call("isDeviceConnected", <<>>, <<>>) >>
        disc == IF flag # 0 THEN << Call("Disconnect", <<>>, <<>>) >> ELSE <<>>
        closes == IF flag # 0 THEN adryLib_Closes(adryLib) ELSE 0
        d1 == IF flag # 0 THEN adryLib_Disconnect(adryLib) ELSE adryLib
    IN  Returns(f, "end", <<>>, Ok(<<>>), query \o disc, closes, d1)

\* end: isDeviceConnected(), then Disconnect() if the flag is set, then the
\* driver's end; an exception raised in Disconnect() leaves end() before that.
end(f) ==
    LET flag == adryLib_isDeviceConnected(adryLib)
        query == << Call("isDeviceConnected", <<>>, <<>>) >>
        disc == IF flag # 0 THEN << Call("Disconnect", <<>>, <<>>) >> ELSE <<>>
        closes == IF flag # 0 THEN adryLib_Closes(adryLib) ELSE 0
        d1 == IF flag # 0 THEN adryLib_Disconnect(adryLib) ELSE adryLib
    IN  IF flag # 0 /\ adryLib_Raises(adryLib, "Disconnect")
        THEN Returns(f, "end", <<>>, Raised("OSError"), query \o disc, closes, d1)
        ELSE Returns(f, "end", <<>>, Ok(<<>>),
                     query \o disc \o << Call("end", <<>>, <<>>) >>,
                     closes, adryLib_end(d1))

isDeviceConnected(f) ==
    Returns(f, "isDeviceConnected", <<>>,
            Ok(<<adryLib_isDeviceConnected(adryLib)>>),
            << Call("isDeviceConnected", <<>>, <<>>) >>, 0, adryLib)

getAttodryErrorStatus(f) ==
    Returns(f, "getAttodryErrorStatus", <<>>,
            Ok(<<adryLib_getAttodryErrorStatus(adryLib)>>),
            << Call("getAttodryErrorStatus", <<>>, <<>>) >>, 0, adryLib)

get4KStageTemperature(f) ==
    Returns(f, "get4KStageTemperature", <<>>,
            Ok(<<adryLib_get4KStageTemperature(adryLib)>>),
            << Call("get4KStageTemperature", <<>>, <<>>) >>, 0, adryLib)

getSampleTemperature_cached(f) ==
    IF lastOp.op = "getSampleTemperature"
    THEN Returns(f, "getSampleTemperature", <<>>, lastRet, <<>>, 0, adryLib)
    ELSE Returns(f, "getSampleTemperature", <<>>,
                 Ok(<<adryLib_getSampleTemperature(adryLib)>>),
                 << Call("getSampleTemperature", <<>>, <<>>) >>, 0, adryLib)

getSampleTemperature(f) ==
    Returns(f, "getSampleTemperature", <<>>,
            Ok(<<adryLib_getSampleTemperature(adryLib)>>),
            << Call("getSampleTemperature", <<>>, <<>>) >>, 0, adryLib)

getUserTemperature(f) ==
    Returns(f, "getUserTemperature", <<>>,
            Ok(<<adryLib_getUserTemperature(adryLib)>>),
            << Call("getUserTemperature", <<>>, <<>>) >>, 0, adryLib)

getMagneticFieldSetPoint(f) ==
    Returns(f, "getMagneticFieldSetPoint", <<>>,
            Ok(<<adryLib_getMagneticFieldSetPoint(adryLib)>>),
            << Call("getMagneticFieldSetPoint", <<>>, <<>>) >>, 0, adryLib)

\* A faulty setUserMagneticField: forwards to the driver's setUserTemperature.
setUserMagneticField_sets_temperature(f, magnetic_field) ==
    IF IsNumber(magnetic_field)
    THEN LET x == c_float(magnetic_field.v)
         IN  Returns(f, "setUserMagneticField", <<magnetic_field>>, Ok(<<>>),
                     << Call("setUserTemperature", <<x>>, <<>>) >>,
                     0, adryLib_setUserTemperature(adryLib, x))
    ELSE Returns(f, "setUserMagneticField", <<magnetic_field>>,
                 Raised("TypeError"), <<>>, 0, adryLib)

setUserMagneticField(f, magnetic_field) ==
    IF IsNumber(magnetic_field)
    THEN LET x == c_float(magnetic_field.v)
         IN  Returns(f, "setUserMagneticField", <<magnetic_field>>, Ok(<<>>),
                     << Call("setUserMagneticField", <<x>>, <<>>) >>,
                     0, adryLib_setUserMagneticField(adryLib, x))
    ELSE Returns(f, "setUserMagneticField", <<magnetic_field>>,
                 Raised("TypeError"), <<>>, 0, adryLib)

\* A faulty setUserTemperature: forwards to the driver's setUserMagneticField.
setUserTemperature_sets_field(f, temperature) ==
    IF IsNumber(temperature)
    THEN LET x == c_float(temperature.v)
         IN  Returns(f, "setUserTemperature", <<temperature>>, Ok(<<>>),
                     << Call("setUserMagneticField", <<x>>, <<>>) >>,
                     0, adryLib_setUserMagneticField(adryLib, x))
    ELSE Returns(f, "setUserTemperature", <<temperature>>,
                 Raised("TypeError"), <<>>, 0, adryLib)

setUserTemperature(f, temperature) ==
    IF IsNumber(temperature)
    THEN LET x == c_float(temperature.v)
         IN  Returns(f, "setUserTemperature", <<temperature>>, Ok(<<>>),
                     << Call("setUserTemperature", <<x>>, <<>>) >>,
                     0, adryLib_setUserTemperature(adryLib, x))
    ELSE Returns(f, "setUserTemperature", <<temperature>>,
                 Raised("TypeError"), <<>>, 0, adryLib)

\* A faulty toggle: refuses on any variant but the attoDRY1100.
toggleHeliumValve_checks_variant(f) ==
    IF setup_version[f] = ATTODRY1100
    THEN Returns(f, "toggleHeliumValve", <<>>, Ok(<<>>),
                 << Call("toggleHeliumValve", <<>>, <<>>) >>,
                 0, adryLib_toggleHeliumValve(adryLib))
    ELSE Returns(f, "toggleHeliumValve", <<>>, Raised("UnsupportedForVariant"),
                 <<>>, 0, adryLib)

toggleHeliumValve(f) ==
    Returns(f, "toggleHeliumValve", <<>>, Ok(<<>>),
            << Call("toggleHeliumValve", <<>>, <<>>) >>,
            0, adryLib_toggleHeliumValve(adryLib))

toggleCryostatInValve(f) ==
    Returns(f, "toggleCryostatInValve", <<>>, Ok(<<>>),
            << Call("toggleCryostatInValve", <<>>, <<>>) >>,
            0, adryLib_toggleCryostatInValve(adryLib))

getActionMessage(f, length) ==
    LET c_length == c_int(length)
        ActionMessage == adryLib_getAttodryErrorMessage(adryLib, c_length)
    IN  Returns(f, "getActionMessage", <<Integer(length)>>,
                Ok(decode_utf8(buffer_value(ActionMessage))),
                << Call("getAttodryErrorMessage", <<c_length>>, <<>>) >>,
                0, adryLib)

getAttodryErrorMessage(f, length) ==
    LET c_length == c_int(length)
        ErrorStatus == adryLib_getAttodryErrorMessage(adryLib, c_length)
    IN  Returns(f, "getAttodryErrorMessage", <<Integer(length)>>,
                Ok(decode_utf8(buffer_value(ErrorStatus))),
                << Call("getAttodryErrorMessage", <<c_length>>, <<>>) >>,
                0, adryLib)

getTurbopumpFrequency(f) ==
    Returns(f, "getTurbopumpFrequency", <<>>,
            Ok(<<adryLib_getTurbopumpFrequency(adryLib)>>),
            << Call("getTurbopumpFrequency", <<>>, <<>>) >>, 0, adryLib)

\* getBreakVac800Valve hands a c_int to the driver's getTurbopumpFrequency,
\* which writes a float to it.
getBreakVac800Valve(f) ==
    Returns(f, "getBreakVac800Valve", <<>>,
            Ok(<<float_bits_as_int(adryLib_getTurbopumpFrequency(adryLib))>>),
            << Call("getTurbopumpFrequency", <<>>, <<>>) >>, 0, adryLib)

-----------------------------------------------------------------------------
(* The device *)

\* A status message from the attoDRY updates the sample temperature the driver
\* holds ("This value is updated whenever a status message is received").
StatusMessage ==
    /\ adryLib.port # NoPort
    /\ \E t \in {0, Ulp} :
          /\ t # adryLib.sampleTemperature
          /\ adryLib' = [adryLib EXCEPT !.sampleTemperature = t]
    /\ UNCHANGED <<objects, setup_version, com_port, lastOp, lastRet, lastCalls,
                   lastCloses, lastPre, lifecycle, emptySession, fieldSession,
                   userTemperatureSet, threads, serialized, lastNative>>

\* A boolean query: a c_int passed by reference to the entry point of the
\* query's name, and its value returned.
BooleanQuery(f, q) ==
    Returns(f, q, <<>>, Ok(<<c_int(adryLib_flag(adryLib, q))>>),
            << Call(q, <<>>, <<>>) >>, 0, adryLib)

isControllingField(f) == BooleanQuery(f, "isControllingField")

isControllingTemperature(f) == BooleanQuery(f, "isControllingTemperature")

isPersistentModeSet(f) == BooleanQuery(f, "isPersistentModeSet")

isGoingToBaseTemperature(f) == BooleanQuery(f, "isGoingToBaseTemperature")

isPumping_toggles(f) ==
    Returns(f, "isPumping", <<>>, Ok(<<c_int(adryLib_flag(adryLib, "isPumping"))>>),
            << Call("isPumping", <<>>, <<>>) >>, 0, adryLib_togglePump(adryLib))

isPumping(f) == BooleanQuery(f, "isPumping")

isSampleExchangeInProgress(f) == BooleanQuery(f, "isSampleExchangeInProgress")

isSampleHeaterOn(f) == BooleanQuery(f, "isSampleHeaterOn")

isSampleReadyToExchange(f) == BooleanQuery(f, "isSampleReadyToExchange")

isSystemRunning(f) == BooleanQuery(f, "isSystemRunning")

isZeroingField(f) == BooleanQuery(f, "isZeroingField")

isExchangeHeaterOn(f) == BooleanQuery(f, "isExchangeHeaterOn")

isDeviceInitialised(f) ==
    Returns(f, "isDeviceInitialised", <<>>,
            Ok(<<c_int(adryLib_isDeviceInitialised(adryLib))>>),
            << Call("isDeviceInitialised", <<>>, <<>>) >>, 0, adryLib)

togglePump(f) ==
    Returns(f, "togglePump", <<>>, Ok(<<>>),
            << Call("togglePump", <<>>, <<>>) >>, 0, adryLib_togglePump(adryLib))

querySampleHeaterResistance(f) ==
    Returns(f, "querySampleHeaterResistance", <<>>, Ok(<<>>),
            << Call("querySampleHeaterResistance", <<>>, <<>>) >>,
            0, adryLib_querySampleHeaterResistance(adryLib))

getSampleHeaterResistance_queries_first(f) ==
    LET d == [adryLib_querySampleHeaterResistance(adryLib) EXCEPT
                  !.heaterResistance = adryLib.deviceHeaterResistance,
                  !.queryPending = FALSE]
    IN  Returns(f, "getSampleHeaterResistance", <<>>,
                Ok(<<adryLib_getSampleHeaterResistance(d)>>),
                << Call("querySampleHeaterResistance", <<>>, <<>>),
                   Call("getSampleHeaterResistance", <<>>, <<>>) >>, 0, d)

getSampleHeaterResistance(f) ==
    Returns(f, "getSampleHeaterResistance", <<>>,
            Ok(<<adryLib_getSampleHeaterResistance(adryLib)>>),
            << Call("getSampleHeaterResistance", <<>>, <<>>) >>, 0, adryLib)

setSampleHeaterResistance(f, heater_resistance) ==
    IF IsNumber(heater_resistance)
    THEN LET x == c_float(heater_resistance.v)
         IN  Returns(f, "setSampleHeaterResistance", <<heater_resistance>>, Ok(<<>>),
                     << Call("setSampleHeaterResistance", <<x>>, <<>>) >>,
                     0, adryLib_setSampleHeaterResistance(adryLib, x))
    ELSE Returns(f, "setSampleHeaterResistance", <<heater_resistance>>,
                 Raised("TypeError"), <<>>, 0, adryLib)

\* A valve toggle: the driver entry point of the toggle's name is called, with
\* no argument and no look at setup_version.
ToggleValve(f, fn) ==
    Returns(f, fn, <<>>, Ok(<<>>), << Call(fn, <<>>, <<>>) >>,
            0, adryLib_toggleValve(adryLib, fn))

toggleCryostatOutValve(f) == ToggleValve(f, "toggleCryostatOutValve")

toggleDumpInValve(f) == ToggleValve(f, "toggleDumpInValve")

toggleDumpOutValve(f) == ToggleValve(f, "toggleDumpOutValve")

toggleInnerVolumeValve(f) == ToggleValve(f, "toggleInnerVolumeValve")

toggleOuterVolumeValve(f) == ToggleValve(f, "toggleOuterVolumeValve")

togglePumpValve(f) == ToggleValve(f, "togglePumpValve")

toggleSampleSpace800Valve(f) == ToggleValve(f, "toggleSampleSpace800Valve")

togglePump800Valve(f) == ToggleValve(f, "togglePump800Valve")

toggleBreakVac800Valve(f) == ToggleValve(f, "toggleBreakVac800Valve")

\* uploadTemperatureCalibrationCurve: the path encoded and the curve number
\* as a C int go to the driver.
uploadTemperatureCalibrationCurve(f, loadpath, user_curve_number) ==
    LET Loadpath == encode_utf8(loadpath)
    IN  Returns(f, "uploadTemperatureCalibrationCurve",
                <<Integer(user_curve_number)>>, Ok(<<>>),
                << Call("uploadTemperatureCalibrationCurve",
                        <<c_int(user_curve_number)>>, c_char_p(Loadpath)) >>,
                0,
                adryLib_uploadTemperatureCalibrationCurve(
                    adryLib, c_int(user_curve_number), c_char_p(Loadpath)))

\* downloadTemperatureSensorCalibrationCurve: the same, for the download.
downloadTemperatureSensorCalibrationCurve(f, user_curve_number, savepath) ==
    LET Savepath == encode_utf8(savepath)
    IN  Returns(f, "downloadTemperatureSensorCalibrationCurve",
                <<Integer(user_curve_number)>>, Ok(<<>>),
                << Call("downloadTemperatureSensorCalibrationCurve",
                        <<c_int(user_curve_number)>>, c_char_p(Savepath)) >>,
                0,
                adryLib_downloadTemperatureSensorCalibrationCurve(
                    adryLib, c_int(user_curve_number), c_char_p(Savepath)))

-----------------------------------------------------------------------------
(* The methods as the threads of a caller run them: a call is entered, makes
   its driver calls one at a time, and returns with the last of them. *)

\* Whether the driver call fn that leaves the driver as d opens a transport.
Opens(fn, d) == fn = "Connect" /\ adryLib.port = NoPort /\ d.port # NoPort

\* The log after the driver call fn that leaves the driver as d: whether the
\* call came after the driver's end, whether the driver is ended now, whether
\* a transport was ever opened, and how many Disconnect calls came since one
\* was last opened.
Logged(t, fn, d) ==
    [thread |-> t, op |-> threads[t].op, fn |-> fn,
     late |-> lastNative.ended,
     ended |-> IF fn = "end" THEN TRUE
               ELSE IF fn = "begin" THEN FALSE
               ELSE lastNative.ended,
     opened |-> lastNative.opened \/ Opens(fn, d),
     disconnects |->
         IF Opens(fn, d) THEN 0
         ELSE IF fn = "Disconnect" /\ lastNative.opened
                 /\ lastNative.disconnects < MaxDisconnects
              THEN lastNative.disconnects + 1
         ELSE lastNative.disconnects]

\* Thread t makes the driver call fn and goes on as next.
NativeCall(t, fn, d, next) ==
    /\ adryLib' = d
    /\ lastNative' = Logged(t, fn, d)
    /\ threads' = [threads EXCEPT ![t] = next]
    /\ UNCHANGED <<objects, setup_version, com_port, serialized, lastOp, lastRet,
                   lastCalls, lastCloses, lastPre, lifecycle, emptySession,
                   fieldSession, userTemperatureSet>>

\* Thread t enters method m of object f; a caller that serializes lets it in
\* only while no other call runs. The argument of a setter is marshalled on
\* entry.
Invoke(t, f, m, x) ==
    /\ threads[t] = Idle
    /\ serialized => \A u \in Threads : threads[u] = Idle
    /\ threads' = [threads EXCEPT ![t] =
                      [op |-> m, facade |-> f, pc |-> 0, flag |-> 0,
                       val |-> IF m = "setUserTemperature" THEN c_float(x) ELSE 0]]
    /\ UNCHANGED <<objects, setup_version, com_port, adryLib, serialized,
                   lastNative, lastOp, lastRet, lastCalls, lastCloses, lastPre,
                   lifecycle, emptySession, fieldSession, userTemperatureSet>>

begin_call(t) ==
    /\ threads[t].op = "begin"
    /\ NativeCall(t, "begin",
                  adryLib_begin(adryLib, c_uint16(setup_version[threads[t].facade])),
                  Idle)

Connect_call(t) ==
    /\ threads[t].op = "Connect"
    /\ NativeCall(t, "Connect",
                  adryLib_Connect(adryLib,
                                  c_char_p(encode_utf8(com_port[threads[t].facade]))),
                  Idle)

Disconnect_call(t) ==
    /\ threads[t].op = "Disconnect"
    /\ NativeCall(t, "Disconnect", adryLib_Disconnect(adryLib), Idle)

getSampleTemperature_call(t) ==
    /\ threads[t].op = "getSampleTemperature"
    /\ NativeCall(t, "getSampleTemperature", adryLib, Idle)

setUserTemperature_call(t) ==
    /\ threads[t].op = "setUserTemperature"
    /\ NativeCall(t, "setUserTemperature",
                  adryLib_setUserTemperature(adryLib, threads[t].val), Idle)

\* end, first call: the flag is read into the thread.
end_isDeviceConnected(t) ==
    /\ threads[t].op = "end"
    /\ threads[t].pc = 0
    /\ NativeCall(t, "isDeviceConnected", adryLib,
                  [threads[t] EXCEPT !.pc = 1,
                                     !.flag = adryLib_isDeviceConnected(adryLib)])

\* end, second call: Disconnect, if the flag read was set.
end_Disconnect(t) ==
    /\ threads[t].op = "end"
    /\ threads[t].pc = 1
    /\ threads[t].flag # 0
    /\ NativeCall(t, "Disconnect", adryLib_Disconnect(adryLib),
                  [threads[t] EXCEPT !.pc = 2])

\* end, last call: the driver's end.
end_end(t) ==
    /\ threads[t].op = "end"
    /\ threads[t].pc = 2 \/ (threads[t].pc = 1 /\ threads[t].flag = 0)
    /\ NativeCall(t, "end", adryLib_end(adryLib), Idle)

\* A fault on the open transport: from now on the driver cannot close it, and
\* its Disconnect returns an error code or raises.
TransportFault ==
    /\ adryLib.port # NoPort
    /\ adryLib.fault = "none"
    /\ \E k \in {"status", "raise"} : adryLib' = [adryLib EXCEPT !.fault = k]
    /\ UNCHANGED <<objects, setup_version, com_port, lastOp, lastRet, lastCalls,
                   lastCloses, lastPre, lifecycle, emptySession, fieldSession,
                   userTemperatureSet, threads, serialized, lastNative>>

\* The attoDRY answers a pending query: its value arrives in the memory of the
\* computer.
QueryCompletes ==
    /\ adryLib.port # NoPort
    /\ adryLib.queryPending
    /\ adryLib' = [adryLib EXCEPT !.heaterResistance = adryLib.deviceHeaterResistance,
                                  !.queryPending = FALSE]
    /\ UNCHANGED <<objects, setup_version, com_port, lastOp, lastRet, lastCalls,
                   lastCloses, lastPre, lifecycle, emptySession, fieldSession,
                   userTemperatureSet, threads, serialized, lastNative>>

-----------------------------------------------------------------------------

Next ==
    \/ \E f \in objects : begin(f)
    \/ \E f \in objects : Connect(f)
    \/ \E f \in objects : Disconnect(f)
    \/ \E f \in objects : end(f)
    \/ \E f \in objects : isDeviceConnected(f)
    \/ \E f \in objects : getAttodryErrorStatus(f)
    \/ \E f \in objects : get4KStageTemperature(f)
    \/ \E f \in objects : getSampleTemperature(f)
    \/ \E f \in objects : getUserTemperature(f)
    \/ \E f \in objects : getMagneticFieldSetPoint(f)
    \/ \E f \in objects : \E x \in SetterInputs : setUserMagneticField(f, x)
    \/ \E f \in objects : \E x \in SetterInputs : setUserTemperature(f, x)
    \/ \E f \in objects : toggleHeliumValve(f)
    \/ \E f \in objects : toggleCryostatInValve(f)
    \/ StatusMessage

Spec == Init /\ [][Next]_vars

\* The forwarding methods: messages, valve getters and toggles, boolean
\* queries, calibration curves.
NextForward ==
    \/ \E f \in objects : begin(f)
    \/ \E f \in objects : Connect(f)
    \/ \E f \in objects : \E n \in MessageLengths : getActionMessage(f, n)
    \/ \E f \in objects : \E n \in MessageLengths : getAttodryErrorMessage(f, n)
    \/ \E f \in objects : getTurbopumpFrequency(f)
    \/ \E f \in objects : getBreakVac800Valve(f)
    \/ \E f \in objects : isDeviceConnected(f)
    \/ \E f \in objects : isDeviceInitialised(f)
    \/ \E f \in objects : isControllingField(f)
    \/ \E f \in objects : isControllingTemperature(f)
    \/ \E f \in objects : isPersistentModeSet(f)
    \/ \E f \in objects : isGoingToBaseTemperature(f)
    \/ \E f \in objects : isPumping(f)
    \/ \E f \in objects : isSampleExchangeInProgress(f)
    \/ \E f \in objects : isSampleHeaterOn(f)
    \/ \E f \in objects : isSampleReadyToExchange(f)
    \/ \E f \in objects : isSystemRunning(f)
    \/ \E f \in objects : isZeroingField(f)
    \/ \E f \in objects : isExchangeHeaterOn(f)
    \/ \E f \in objects : togglePump(f)
    \/ \E f \in objects : toggleHeliumValve(f)
    \/ \E f \in objects : toggleCryostatInValve(f)
    \/ \E f \in objects : toggleCryostatOutValve(f)
    \/ \E f \in objects : toggleDumpInValve(f)
    \/ \E f \in objects : toggleDumpOutValve(f)
    \/ \E f \in objects : toggleInnerVolumeValve(f)
    \/ \E f \in objects : toggleOuterVolumeValve(f)
    \/ \E f \in objects : togglePumpValve(f)
    \/ \E f \in objects : toggleSampleSpace800Valve(f)
    \/ \E f \in objects : togglePump800Valve(f)
    \/ \E f \in objects : toggleBreakVac800Valve(f)
    \/ \E f \in objects : \E n \in CurveNumbers : \E path \in CurvePaths :
          uploadTemperatureCalibrationCurve(f, path, n)
    \/ \E f \in objects : \E n \in CurveNumbers : \E path \in CurvePaths :
          downloadTemperatureSensorCalibrationCurve(f, n, path)

SpecForward == Init /\ [][NextForward]_vars

\* The query, get and set of the sample heater resistance.
NextQuery ==
    \/ \E f \in objects : begin(f)
    \/ \E f \in objects : Connect(f)
    \/ \E f \in objects : querySampleHeaterResistance(f)
    \/ \E f \in objects : getSampleHeaterResistance(f)
    \/ \E f \in objects : \E x \in SetterInputs : setSampleHeaterResistance(f, x)
    \/ QueryCompletes

SpecQuery == Init /\ [][NextQuery]_vars

\* Two objects in one process, over the one driver.
InitShared ==
    /\ objects = Facades
    /\ setup_version \in [objects -> Devices]
    /\ com_port \in [objects -> Ports]
    /\ serialized = TRUE
    /\ Fresh

NextShared ==
    \/ \E f \in objects : begin(f)
    \/ \E f \in objects : Connect(f)
    \/ \E f \in objects : Disconnect(f)
    \/ \E f \in objects : end(f)
    \/ \E f \in objects : isDeviceConnected(f)

SpecShared == InitShared /\ [][NextShared]_vars

\* One object called from two threads; the caller serializes its calls or
\* does not.
InitThreads ==
    /\ objects = {"a"}
    /\ setup_version \in [objects -> Devices]
    /\ com_port \in [objects -> Ports]
    /\ serialized \in BOOLEAN
    /\ Fresh

NextThreads ==
    \/ \E t \in Threads : \E f \in objects : \E m \in ThreadMethods :
          \E x \in Doubles : Invoke(t, f, m, x)
    \/ \E t \in Threads : begin_call(t)
    \/ \E t \in Threads : Connect_call(t)
    \/ \E t \in Threads : Disconnect_call(t)
    \/ \E t \in Threads : getSampleTemperature_call(t)
    \/ \E t \in Threads : setUserTemperature_call(t)
    \/ \E t \in Threads : end_isDeviceConnected(t)
    \/ \E t \in Threads : end_Disconnect(t)
    \/ \E t \in Threads : end_end(t)

SpecThreads == InitThreads /\ [][NextThreads]_vars

\* The lifecycle methods against a driver whose transport can fail.
NextFaulty ==
    \/ \E f \in objects : begin(f)
    \/ \E f \in objects : Connect(f)
    \/ \E f \in objects : Disconnect(f)
    \/ \E f \in objects : end(f)
    \/ \E f \in objects : isDeviceConnected(f)
    \/ TransportFault

SpecFaulty == Init /\ [][NextFaulty]_vars

-----------------------------------------------------------------------------
(* Properties *)

\* The positions in the last call's record of the driver calls to fn.
CallsTo(fn) == {i \in DOMAIN lastCalls : lastCalls[i].fn = fn}

\* The native 32-bit values among the host floats.
IsNative(x) == x % Ulp = 0

TelemetryGetters ==
    {"get4KStageTemperature", "getSampleTemperature", "getUserTemperature",
     "getMagneticFieldSetPoint"}

LifecycleOps == {"__init__", "begin", "Connect", "Disconnect", "end"}

\* C1: when end() is called while the driver reports the device connected,
\* the driver's Disconnect is called exactly once and before the driver's end,
\* which is called exactly once and is the last driver call.
EndDisconnectsOnceThenStops ==
    (lastOp.op = "end" /\ lastPre.connected # 0) =>
        /\ Cardinality(CallsTo("Disconnect")) = 1
        /\ Cardinality(CallsTo("end")) = 1
        /\ \A i \in CallsTo("Disconnect") : \A j \in CallsTo("end") : i < j
        /\ lastCalls[Len(lastCalls)].fn = "end"

EndWhileConnected == lastOp.op = "end" /\ lastPre.connected # 0

\* C2: a telemetry getter called before begin() fails with NotInitialized, and
\* called after begin() but before Connect() fails with NotConnected; in
\* neither case is the driver called.
GetterRejectedBeforeConnect ==
    lastOp.op \in TelemetryGetters =>
        /\ lastPre.lifecycle = "Constructed" =>
              (lastRet.status = "NotInitialized" /\ lastCalls = <<>>)
        /\ lastPre.lifecycle = "Begun" =>
              (lastRet.status = "NotConnected" /\ lastCalls = <<>>)

\* C3: every call made on an object after its end() has returned fails with
\* NotInitialized and makes no driver call.
InertAfterEnd ==
    lastPre.lifecycle = "Ended" =>
        (lastRet.status = "NotInitialized" /\ lastCalls = <<>>)

\* C4: a read, write, telemetry or diagnostic call reaches the driver only
\* while the object is in Connected, and fails with NotConnected in every
\* other lifecycle state.
DriverReachedOnlyWhileConnected ==
    lastOp.op \notin LifecycleOps =>
        /\ lastCalls # <<>> => lastPre.lifecycle = "Connected"
        /\ lastPre.lifecycle # "Connected" => lastRet.status = "NotConnected"

\* C5: Disconnect() returns normally, leaves no transport open, closes a
\* transport exactly when one was open, and changes nothing and closes nothing
\* when none was open, in particular when it repeats a Disconnect().
DisconnectIdempotent ==
    lastOp.op = "Disconnect" =>
        /\ lastRet = Ok(<<>>)
        /\ adryLib.port = NoPort
        /\ lastCloses = lastPre.connected
        /\ lastPre.connected = 0 => (~lastPre.changed /\ lastCloses = 0)
        /\ lastPre.repeated => (~lastPre.changed /\ lastCloses = 0)

DisconnectTwice == lastOp.op = "Disconnect" /\ lastPre.repeated

\* C6: for every device, begin(), Connect(), Disconnect(), end() called in
\* that order on a new object, with nothing in between, each return normally;
\* the server runs after begin(), the transport is open after Connect() when a
\* device answers at the port, and at the end the server is stopped and the
\* transport closed.
EmptySessionSucceeds ==
    emptySession.step >= 1 =>
        LET f == emptySession.who
            port == encode_utf8(com_port[f])
        IN  /\ lastRet = Ok(<<>>)
            /\ emptySession.step = 1 =>
                  (adryLib.started /\ lastCalls[1].num = <<setup_version[f]>>)
            /\ (emptySession.step = 2 /\ port \in PresentPorts) =>
                  (adryLib.started /\ adryLib.port = port)
            /\ emptySession.step = 3 => (adryLib.started /\ adryLib.port = NoPort)
            /\ emptySession.step = 4 => (~adryLib.started /\ adryLib.port = NoPort)

EmptySessionDone ==
    /\ emptySession.step = 4
    /\ setup_version[emptySession.who] = ATTODRY800
    /\ com_port[emptySession.who] = COM5

\* Every driver begin carries the object's device code and every driver
\* Connect the object's connection identifier.
CallsCarryConfiguration ==
    \A i \in DOMAIN lastCalls :
        /\ lastCalls[i].fn = "begin" =>
              lastCalls[i].num = <<setup_version[lastOp.facade]>>
        /\ lastCalls[i].fn = "Connect" =>
              decode_utf8(lastCalls[i].str) = com_port[lastOp.facade]

\* C7: no call changes an object's device or connection identifier, and every
\* driver begin carries the device code (0, 1 or 2) and every driver Connect
\* the connection identifier the object was constructed with.
ConfigurationImmutable ==
    /\ [](CallsCarryConfiguration /\ \A f \in objects : setup_version[f] \in 0 .. 2)
    /\ [][setup_version' = setup_version /\ com_port' = com_port]_vars

BeginAndConnectCalled ==
    /\ lastOp.op = "Connect"
    /\ adryLib.started
    /\ setup_version[lastOp.facade] = ATTODRY800
    /\ com_port[lastOp.facade] = COM9

\* C8: getUserTemperature() returns the native value V last passed to
\* setUserTemperature(V), when no other setter was called in between.
UserTemperatureRoundTrip ==
    (/\ lastOp.op = "getUserTemperature"
     /\ userTemperatureSet # <<>>
     /\ IsNative(userTemperatureSet[1].v)) =>
        lastRet = Ok(<<userTemperatureSet[1].v>>)

UserTemperatureReadBack ==
    /\ lastOp.op = "getUserTemperature"
    /\ userTemperatureSet = <<Number(Ulp)>>

\* C9: in the session begin(), Connect(), setUserMagneticField(0.5),
\* getMagneticFieldSetPoint(), Disconnect(), end() on a new attoDRY2100 object
\* every call returns normally, the driver's setUserMagneticField receives
\* exactly 0.5, and getMagneticFieldSetPoint() returns 0.5.
FieldSessionReturnsHalf ==
    (fieldSession.step >= 1
        /\ setup_version[fieldSession.who] = ATTODRY2100) =>
        /\ lastRet.status = "ok"
        /\ fieldSession.step = 3 =>
              lastCalls = << Call("setUserMagneticField", <<FieldHalf>>, <<>>) >>
        /\ fieldSession.step = 4 => lastRet = Ok(<<FieldHalf>>)

FieldSessionDone ==
    /\ fieldSession.step = 6
    /\ setup_version[fieldSession.who] = ATTODRY2100

\* C10: a valve toggle restricted to one device, called on an object
\* configured for another device, fails with UnsupportedForVariant and makes
\* no driver call.
RestrictedToggleRejected ==
    /\ (lastOp.op = "toggleHeliumValve"
           /\ setup_version[lastOp.facade] # ATTODRY1100) =>
          (lastRet.status = "UnsupportedForVariant" /\ lastCalls = <<>>)
    /\ (lastOp.op = "toggleCryostatInValve"
           /\ setup_version[lastOp.facade] # ATTODRY2100) =>
          (lastRet.status = "UnsupportedForVariant" /\ lastCalls = <<>>)

\* C11: every method other than end() that returns normally has called
\* exactly the driver entry point of its own name; getActionMessage() returns
\* the driver's action message and getBreakVac800Valve() the status of the
\* break-vacuum valve.
ForwardsToNamedEntryPoint ==
    (lastOp.op \notin {"__init__", "end"} /\ lastRet.status = "ok") =>
        /\ Len(lastCalls) = 1
        /\ lastCalls[1].fn = lastOp.op
        /\ lastOp.op = "getActionMessage" =>
              lastRet.value \in
                  {decode_utf8(adryLib_getActionMessage(adryLib, n)) : n \in MessageLengths}
        /\ lastOp.op = "getBreakVac800Valve" =>
              lastRet.value = <<adryLib_getBreakVac800Valve(adryLib)>>

\* The failure each kind of method is to report.
FailureKind(op) ==
    CASE op = "begin" -> "DriverStartFailure"
      [] op = "Connect" -> "ConnectionFailure"
      [] OTHER -> "DriverError"

\* C12: a method during which the driver signalled a failure does not return
\* normally: begin() fails with DriverStartFailure, Connect() with
\* ConnectionFailure, any other method with DriverError.
DriverFailureSurfaced ==
    lastPre.signalled => lastRet.status = FailureKind(lastOp.op)

\* What a method that returned normally has done, for the methods that open
\* and close: end() leaves the server stopped and no transport open,
\* Disconnect() leaves no transport open.
FullyApplied ==
    /\ lastOp.op = "end" => (~adryLib.started /\ adryLib.port = NoPort)
    /\ lastOp.op = "Disconnect" => adryLib.port = NoPort

\* C13: every method either returns normally having fully applied, or makes
\* no driver call, or fails at its single driver call; end() never stops
\* after its Disconnect with the driver's end not called.
NoPartialFailure ==
    /\ \/ lastRet.status = "ok" /\ FullyApplied
       \/ lastCalls = <<>>
       \/ lastRet.status # "ok" /\ Len(lastCalls) = 1
    /\ lastOp.op = "end" =>
          (CallsTo("Disconnect") # {} => CallsTo("end") # {})

\* The driver entry points that take a user curve number.
CurveEntryPoints ==
    {"uploadTemperatureCalibrationCurve", "downloadTemperatureSensorCalibrationCurve"}

\* C14: a curve number outside 1..8 never reaches the driver: every call of a
\* curve entry point carries a number between 1 and 8.
CurveNumberInRange ==
    \A i \in 1 .. Len(lastCalls) :
        lastCalls[i].fn \in CurveEntryPoints => lastCalls[i].num[1] \in 1 .. 8

\* The boolean status queries.
BooleanQueries == DriverFlags \cup {"isDeviceInitialised", "isDeviceConnected"}

\* The driver flag a boolean query is named after.
FlagOf(q, d) ==
    CASE q = "isDeviceConnected" -> adryLib_isDeviceConnected(d)
      [] q = "isDeviceInitialised" -> adryLib_isDeviceInitialised(d)
      [] OTHER -> adryLib_flag(d, q)

\* C15: a boolean query makes the one driver call of its own name, returns
\* that flag, and leaves the driver as it was, closing nothing.
BooleanQueryReadsOneFlag ==
    lastOp.op \in BooleanQueries =>
        /\ lastCalls = << Call(lastOp.op, <<>>, <<>>) >>
        /\ lastRet = Ok(<<FlagOf(lastOp.op, adryLib)>>)
        /\ ~lastPre.changed
        /\ lastCloses = 0

\* A query has read a flag that is set.
PumpingRead == lastOp.op = "isPumping" /\ lastRet = Ok(<<1>>)

\* What is observed of the last method call; a step that leaves it alone is a
\* step of the attoDRY.
Observed == <<lastOp, lastRet, lastCalls, lastCloses, lastPre>>

\* C16: getSampleHeaterResistance() makes the get call only, never the query,
\* and returns the value in the computer's memory; that value changes only
\* when the attoDRY answers a pending query, never in a method call, a set
\* included.
GetReadsComputerSide ==
    [][IF Observed' = Observed
       THEN adryLib'.heaterResistance # adryLib.heaterResistance =>
                adryLib.queryPending
       ELSE /\ adryLib'.heaterResistance = adryLib.heaterResistance
            /\ lastOp'.op = "getSampleHeaterResistance" =>
                  /\ lastCalls' = << Call("getSampleHeaterResistance", <<>>, <<>>) >>
                  /\ lastRet' = Ok(<<adryLib.heaterResistance>>)]_vars

\* A get has returned the computer's value while the attoDRY holds another.
StaleGet ==
    /\ lastOp.op = "getSampleHeaterResistance"
    /\ lastRet = Ok(<<adryLib.heaterResistance>>)
    /\ adryLib.deviceHeaterResistance # adryLib.heaterResistance

\* What the driver holds for a scalar getter.
DriverValue(op, d) ==
    CASE op = "get4KStageTemperature" -> adryLib_get4KStageTemperature(d)
      [] op = "getSampleTemperature" -> adryLib_getSampleTemperature(d)
      [] op = "getUserTemperature" -> adryLib_getUserTemperature(d)
      [] op = "getMagneticFieldSetPoint" -> adryLib_getMagneticFieldSetPoint(d)

\* C17: every call of a scalar getter makes one driver read of its own name
\* and returns what the driver holds at that call, whatever an earlier call
\* returned.
GetterReadsFresh ==
    [][(Observed' # Observed /\ lastOp'.op \in TelemetryGetters) =>
          /\ lastCalls' = << Call(lastOp'.op, <<>>, <<>>) >>
          /\ lastRet' = Ok(<<DriverValue(lastOp'.op, adryLib)>>)]_vars

\* Two calls in a row of getSampleTemperature() have returned two values, the
\* driver's value having changed in between.
GetterSawChange ==
    /\ lastOp.op = "getSampleTemperature"
    /\ lastPre.repeated
    /\ ~lastPre.sameRet
    /\ lastRet = Ok(<<adryLib_getSampleTemperature(adryLib)>>)

\* C18: end() decides from the driver's isDeviceConnected flag alone: it reads
\* the flag first, calls Disconnect exactly when the flag is set, whatever
\* this object did before, and calls the driver's end exactly once.
EndDecidesFromDriverFlag ==
    lastOp.op = "end" =>
        /\ lastCalls[1] = Call("isDeviceConnected", <<>>, <<>>)
        /\ CallsTo("Disconnect") # {} <=> lastPre.connected # 0
        /\ Cardinality(CallsTo("Disconnect")) <= 1
        /\ Cardinality(CallsTo("end")) = 1

\* end() of an object that is not connected itself has disconnected, the
\* driver's flag being set.
EndOfUnconnectedObject ==
    /\ lastOp.op = "end"
    /\ lastPre.lifecycle # "Connected"
    /\ lastPre.connected # 0
    /\ CallsTo("Disconnect") # {}

\* C19: no method called on one object closes the connection of another
\* object or stops the driver under it.
ConnectionExclusive ==
    [][\A f \in objects :
          (lifecycle[f] = "Connected" /\ lastOp'.facade # f /\ Observed' # Observed) =>
              (adryLib'.port = adryLib.port /\ adryLib'.started = adryLib.started)]_vars

\* The valve toggles that exist on one variant only.
RestrictedToggles ==
    {"toggleCryostatInValve", "toggleCryostatOutValve", "toggleDumpInValve",
     "toggleDumpOutValve", "toggleHeliumValve", "toggleInnerVolumeValve",
     "toggleOuterVolumeValve", "togglePumpValve", "toggleSampleSpace800Valve",
     "togglePump800Valve", "toggleBreakVac800Valve"}

\* The getters that exist on one variant only.
RestrictedGetters == {"getTurbopumpFrequency", "getBreakVac800Valve"}

\* C20: a method restricted to one variant is forwarded whatever the variant
\* of the object: it returns normally, a toggle having made the one driver
\* call of its own name without argument, a getter one driver call.
ForwardedForEveryVariant ==
    /\ lastOp.op \in RestrictedToggles =>
          (lastRet = Ok(<<>>) /\ lastCalls = << Call(lastOp.op, <<>>, <<>>) >>)
    /\ lastOp.op \in RestrictedGetters =>
          (lastRet.status = "ok" /\ Len(lastCalls) = 1 /\ lastCalls[1].num = <<>>)

\* The helium valve of the attoDRY1100 has been toggled through an object of
\* another variant.
ToggledOnOtherVariant ==
    /\ lastOp.op = "toggleHeliumValve"
    /\ setup_version[lastOp.facade] # ATTODRY1100
    /\ lastCalls = << Call("toggleHeliumValve", <<>>, <<>>) >>
    /\ adryLib.heliumValve = 1

\* The driver has received Disconnect twice since it last opened a transport.
DisconnectedTwice ==
    lastNative.fn = "Disconnect" /\ lastNative.disconnects >= 2

\* A getter or a setter has reached the driver after the driver's end.
CallAfterDriverEnd ==
    /\ lastNative.op \in {"getSampleTemperature", "setUserTemperature"}
    /\ lastNative.late

\* C21: when the caller serializes its calls, Disconnect is never issued
\* twice for one connection and no getter or setter reaches the driver after
\* the driver's end.
SerializedUseSafe ==
    serialized => ~(DisconnectedTwice \/ CallAfterDriverEnd)

\* Without serialization the second Disconnect can be that of end(): another
\* thread has disconnected between end()'s reading of the flag and its
\* Disconnect.
RacingEndDisconnectsTwice ==
    /\ ~serialized
    /\ lastNative.op = "end"
    /\ DisconnectedTwice

\* Serialized, the Disconnect of end() is the first for its connection.
SerializedEndDisconnectsOnce ==
    (serialized /\ lastNative.op = "end") => ~DisconnectedTwice

=============================================================================
